---- MODULE Spec2Model ----
(***************************************************************************)
(* A model of the YouTube transcript MCP server (src/server.py): the       *)
(* request handler youtube_get_transcript, its two caption backends, its   *)
(* metadata backends, the transcript formatter and the document builder.   *)
(***************************************************************************)
EXTENDS Integers, Sequences, FiniteSets, TLC

(***************************************************************************)
(* Strings.  A Python str is modelled as a sequence of pieces.  A piece of *)
(* kind "lit" is the slice s[off .. off+n) of the literal s; a piece of    *)
(* kind "rep" is the one-character string s repeated n times.  No piece is *)
(* empty, so the empty string is << >>.                                    *)
(***************************************************************************)
Lit(s) == IF Len(s) = 0 THEN << >> ELSE << [k |-> "lit", s |-> s, off |-> 0, n |-> Len(s)] >>

Rep(c, n) == IF n = 0 THEN << >> ELSE << [k |-> "rep", s |-> c, off |-> 0, n |-> n] >>

RECURSIVE StrLen(_)
StrLen(str) == IF str = << >> THEN 0 ELSE Head(str).n + StrLen(Tail(str))

\* str[:k] for k >= 0
RECURSIVE Take(_, _)
Take(str, k) ==
    IF k <= 0 \/ str = << >> THEN << >>
    ELSE IF Head(str).n <= k THEN << Head(str) >> \o Take(Tail(str), k - Head(str).n)
    ELSE << [Head(str) EXCEPT !.n = k] >>

\* str[k:] for k >= 0
RECURSIVE Drop(_, _)
Drop(str, k) ==
    IF str = << >> THEN << >>
    ELSE IF k <= 0 THEN str
    ELSE IF Head(str).n <= k THEN Drop(Tail(str), k - Head(str).n)
    ELSE << [Head(str) EXCEPT !.n = @ - k,
                              !.off = IF Head(str).k = "lit" THEN @ + k ELSE @] >>
         \o Tail(str)

IsSpace(p) == p.k = "rep" /\ p.s \in {" ", "\n", "\t"}

RECURSIVE LStrip(_)
LStrip(str) ==
    IF str = << >> THEN << >>
    ELSE IF IsSpace(Head(str)) THEN LStrip(Tail(str))
    ELSE str

RECURSIVE RStrip(_)
RStrip(str) ==
    IF str = << >> THEN << >>
    ELSE IF IsSpace(str[Len(str)]) THEN RStrip(SubSeq(str, 1, Len(str) - 1))
    ELSE str

\* str.strip()
Strip(str) == RStrip(LStrip(str))

\* sep.join(strs)
RECURSIVE Join(_, _)
Join(sep, strs) ==
    IF strs = << >> THEN << >>
    ELSE IF Len(strs) = 1 THEN strs[1]
    ELSE strs[1] \o sep \o Join(sep, Tail(strs))

PadNone(n) == Lit(ToString(n))

\* f"{n:02d}" for n >= 0
Pad2(n) == IF n < 10 THEN Lit("0" \o ToString(n)) ELSE Lit(ToString(n))

(***************************************************************************)
(* Constants of the program.                                               *)
(***************************************************************************)
DEFAULT_LANGUAGES == << "ja", "en", "ko" >>

MAX_TRANSCRIPT_CHARS == 200000

TruncationMarker == Lit("\n\n[... transcript truncated due to length ...]")

NoDuration == -1

Unknown == Lit("Unknown")

DefaultMetadata(video_id) ==
    [title |-> Unknown, author |-> Unknown, channel_url |-> << >>, upload_date |-> << >>,
     duration_seconds |-> NoDuration, description |-> << >>, video_id |-> video_id]

(***************************************************************************)
(* _format_transcript_text.  An entry is [text, start, duration] with the  *)
(* times in hundredths of a second (the backends round to two decimals).   *)
(***************************************************************************)
FormatLine(e, include_timestamps) ==
    LET text == Strip(e.text)
        minutes == e.start \div 6000
        seconds == (e.start % 6000) \div 100
    IN  IF include_timestamps
        THEN Lit("[") \o Pad2(minutes) \o Lit(":") \o Pad2(seconds) \o Lit("] ") \o text
        ELSE text

RECURSIVE FormatLinesKeepBlank(_, _)
FormatLinesKeepBlank(entries, include_timestamps) ==
    IF entries = << >> THEN << >>
    ELSE << FormatLine(Head(entries), include_timestamps) >>
         \o FormatLinesKeepBlank(Tail(entries), include_timestamps)

\* lines 257-267: the list lines
RECURSIVE FormatLines(_, _)
FormatLines(entries, include_timestamps) ==
    IF entries = << >> THEN << >>
    ELSE IF Strip(Head(entries).text) = << >>
         THEN FormatLines(Tail(entries), include_timestamps)
         ELSE << FormatLine(Head(entries), include_timestamps) >>
              \o FormatLines(Tail(entries), include_timestamps)

FormatTranscriptText(entries, include_timestamps) ==
    Join(Lit("\n"), FormatLines(entries, include_timestamps))

(***************************************************************************)
(* _build_markdown_output.                                                 *)
(***************************************************************************)
WatchUrl(video_id) == Lit("https://www.youtube.com/watch?v=") \o Lit(video_id)

UploadDateField(d) ==
    IF StrLen(d) = 8
    THEN Lit("upload_date: ") \o Take(d, 4) \o Lit("-") \o Take(Drop(d, 4), 2)
         \o Lit("-") \o Drop(d, 6)
    ELSE Lit("upload_date: ") \o d

DurationField(duration_seconds) ==
    Lit("duration: ") \o Lit(ToString(duration_seconds \div 60)) \o Lit("m")
    \o Lit(ToString(duration_seconds % 60)) \o Lit("s")

FrontmatterFields(metadata, transcript_info, video_id) ==
    << Lit("title: \"") \o metadata.title \o Lit("\""),
       Lit("author: \"") \o metadata.author \o Lit("\""),
       Lit("url: ") \o WatchUrl(video_id),
       Lit("video_id: ") \o Lit(video_id),
       Lit("transcript_language: ") \o Lit(transcript_info.language),
       Lit("transcript_source: ") \o Lit(transcript_info.source) >>
    \o (IF metadata.upload_date # << >>
        THEN << UploadDateField(metadata.upload_date) >> ELSE << >>)
    \o (IF metadata.duration_seconds # NoDuration /\ metadata.duration_seconds # 0
        THEN << DurationField(metadata.duration_seconds) >> ELSE << >>)

Frontmatter(metadata, transcript_info, video_id) ==
    Lit("---\n") \o Join(Lit("\n"), FrontmatterFields(metadata, transcript_info, video_id))
    \o Lit("\n---")

DescriptionSection(metadata) ==
    IF metadata.description # << >>
    THEN Lit("\n## Description\n\n") \o metadata.description \o Lit("\n")
    ELSE << >>

TranscriptSection(transcript_text) == Lit("\n## Transcript\n\n") \o transcript_text \o Lit("\n")

\* the document before the size bound is applied (the f-string of lines 306-311)
AssembleDocument(metadata, transcript_text, transcript_info, video_id) ==
    Frontmatter(metadata, transcript_info, video_id) \o Lit("\n")
    \o DescriptionSection(metadata) \o TranscriptSection(transcript_text)

TruncateAtCeiling(output) ==
    IF StrLen(output) >= MAX_TRANSCRIPT_CHARS
    THEN Take(output, MAX_TRANSCRIPT_CHARS) \o TruncationMarker
    ELSE output

\* lines 313-317
Truncate(output) ==
    IF StrLen(output) > MAX_TRANSCRIPT_CHARS
    THEN Take(output, MAX_TRANSCRIPT_CHARS) \o TruncationMarker
    ELSE output

BuildMarkdownOutput(metadata, transcript_text, transcript_info, video_id) ==
    Truncate(AssembleDocument(metadata, transcript_text, transcript_info, video_id))

(***************************************************************************)
(* _extract_video_id.  The input is a string of characters; the pattern of *)
(* line 43 is searched and the pattern of line 51 is matched character by  *)
(* character, as re.search and re.fullmatch do.                            *)
(***************************************************************************)
None == [none |-> TRUE]

MinOf(S) == CHOOSE x \in S : \A y \in S : x <= y

MaxOf(S) == CHOOSE x \in S : \A y \in S : x >= y

\* the {11} of both patterns
ID_LENGTH == 11

\* the class [a-zA-Z0-9_-]
IdAlphabet == "abcdefghijklmnopqrstuvwxyzABCDEFGHIJKLMNOPQRSTUVWXYZ0123456789_-"

CharAt(s, i) == SubSeq(s, i, i)

IsIdChar(c) == \E i \in 1..Len(IdAlphabet) : CharAt(IdAlphabet, i) = c

Whitespace == {" ", "\t", "\n", "\r"}

\* url_or_id.strip()
RECURSIVE StripChars(_)
StripChars(s) ==
    IF Len(s) = 0 THEN s
    ELSE IF CharAt(s, 1) \in Whitespace THEN StripChars(SubSeq(s, 2, Len(s)))
    ELSE IF CharAt(s, Len(s)) \in Whitespace THEN StripChars(SubSeq(s, 1, Len(s) - 1))
    ELSE s

\* the literal lit stands in s from position i on
LitAt(s, i, lit) == i >= 1 /\ i + Len(lit) - 1 <= Len(s) /\ SubSeq(s, i, i + Len(lit) - 1) = lit

\* ([a-zA-Z0-9_-]{11}) matches s from position i on
IdAt(s, i) ==
    /\ i + ID_LENGTH - 1 <= Len(s)
    /\ \A j \in i..(i + ID_LENGTH - 1) : IsIdChar(CharAt(s, j))

\* the first alternative up to its wildcard: youtube\.com/watch\?
WatchShape == "youtube.com/watch?"

\* the other alternatives, in the order of the pattern
UrlShapes == << "youtu.be/", "youtube.com/embed/", "youtube.com/v/", "youtube.com/shorts/" >>

\* where group 1 may start when youtube\.com/watch\?.*v= matches from position i on: the
\* wildcard takes any characters but a line end
WatchGroupStarts(s, i) ==
    IF ~LitAt(s, i, WatchShape) THEN {}
    ELSE { g \in (i + Len(WatchShape) + 2)..Len(s) :
             /\ LitAt(s, g - 2, "v=")
             /\ IdAt(s, g)
             /\ \A j \in (i + Len(WatchShape))..(g - 3) : CharAt(s, j) # "\n" }

\* where group 1 starts when the pattern matches from position i on, 0 when it does not:
\* the alternatives are tried in order and the wildcard is greedy
GroupAt(s, i) ==
    IF WatchGroupStarts(s, i) # {} THEN MaxOf(WatchGroupStarts(s, i))
    ELSE LET K == { k \in 1..Len(UrlShapes) :
                      LitAt(s, i, UrlShapes[k]) /\ IdAt(s, i + Len(UrlShapes[k])) }
         IN  IF K = {} THEN 0 ELSE i + Len(UrlShapes[MinOf(K)])

\* re.search(pattern, s): the match at the leftmost position that has one
SearchGroup(s) ==
    LET I == { i \in 1..Len(s) : GroupAt(s, i) # 0 }
    IN  IF I = {} THEN 0 ELSE GroupAt(s, MinOf(I))

FullMatchIdPrefix(s) == IdAt(s, 1)

\* re.fullmatch(r"[a-zA-Z0-9_-]{11}", s)
FullMatchId(s) == Len(s) = ID_LENGTH /\ IdAt(s, 1)

RaiseValueError(s) == [raised |-> TRUE, value |-> "ValueError", url_or_id |-> s]

ExtractVideoIdUrlOnly(url_or_id) ==
    LET s == StripChars(url_or_id)
        group == SearchGroup(s)
    IN  IF group # 0
        THEN [raised |-> FALSE, value |-> SubSeq(s, group, group + ID_LENGTH - 1)]
        ELSE RaiseValueError(s)

\* lines 38-57
ExtractVideoId(url_or_id) ==
    LET s == StripChars(url_or_id)
        group == SearchGroup(s)
    IN  IF group # 0
        THEN [raised |-> FALSE, value |-> SubSeq(s, group, group + ID_LENGTH - 1)]
        ELSE IF FullMatchId(s)
        THEN [raised |-> FALSE, value |-> s]
        ELSE RaiseValueError(s)

(***************************************************************************)
(* _get_transcript_via_api.  The captioning service answers with a list of *)
(* transcripts [language_code, is_generated, fetch_ok, entries] (or the    *)
(* listing raises); find_manually_created_transcript([lang]) and           *)
(* find_generated_transcript([lang]) look a language up among the manual   *)
(* and the generated transcripts of that list.                             *)
(***************************************************************************)
\* the first transcript of the list with this language and kind, or None
RECURSIVE FindTranscript(_, _, _)
FindTranscript(transcript_list, lang, generated) ==
    IF transcript_list = << >> THEN None
    ELSE IF Head(transcript_list).language_code = lang
            /\ Head(transcript_list).is_generated = generated
         THEN Head(transcript_list)
         ELSE FindTranscript(Tail(transcript_list), lang, generated)

\* lines 71-78 and 82-89: the first language of the list that has a transcript of the kind
RECURSIVE FirstLanguageWith(_, _, _)
FirstLanguageWith(transcript_list, languages, generated) ==
    IF languages = << >> THEN None
    ELSE IF FindTranscript(transcript_list, Head(languages), generated) # None
         THEN [transcript |-> FindTranscript(transcript_list, Head(languages), generated),
               source |-> IF generated THEN "auto-generated" ELSE "manual",
               lang_found |-> Head(languages)]
         ELSE FirstLanguageWith(transcript_list, Tail(languages), generated)

\* lines 91-100
LastResort(transcript_list) ==
    IF transcript_list # << >>
    THEN [transcript |-> transcript_list[1],
          source |-> IF transcript_list[1].is_generated THEN "auto-generated" ELSE "manual",
          lang_found |-> transcript_list[1].language_code]
    ELSE None

SelectTranscriptFirstLanguageOnly(transcript_list, languages) ==
    IF FirstLanguageWith(transcript_list, << Head(languages) >>, FALSE) # None
    THEN FirstLanguageWith(transcript_list, << Head(languages) >>, FALSE)
    ELSE IF FirstLanguageWith(transcript_list, languages, TRUE) # None
    THEN FirstLanguageWith(transcript_list, languages, TRUE)
    ELSE IF FirstLanguageWith(transcript_list, languages, FALSE) # None
    THEN FirstLanguageWith(transcript_list, languages, FALSE)
    ELSE LastResort(transcript_list)

\* lines 66-100: manual in list order, then auto-generated in list order, then anything
SelectTranscript(transcript_list, languages) ==
    IF FirstLanguageWith(transcript_list, languages, FALSE) # None
    THEN FirstLanguageWith(transcript_list, languages, FALSE)
    ELSE IF FirstLanguageWith(transcript_list, languages, TRUE) # None
    THEN FirstLanguageWith(transcript_list, languages, TRUE)
    ELSE LastResort(transcript_list)

GetTranscriptViaApi(video_id, languages, service) ==
    IF ~service.list_ok
    THEN [raised |-> TRUE, value |-> "TranscriptsDisabled"]
    ELSE LET sel == SelectTranscript(service.transcript_list, languages)
         IN  IF sel = None
             THEN [raised |-> TRUE, value |-> "No transcript available"]
             ELSE IF ~sel.transcript.fetch_ok
             THEN [raised |-> TRUE, value |-> "CouldNotRetrieveTranscript"]
             ELSE [raised |-> FALSE,
                   value |-> [entries |-> sel.transcript.entries,
                              language |-> sel.lang_found,
                              source |-> sel.source],
                   obtained |-> [language |-> sel.transcript.language_code,
                                 source |-> IF sel.transcript.is_generated
                                            THEN "auto-generated" ELSE "manual"]]

(***************************************************************************)
(* _get_transcript_via_ytdlp, the pure part: the json3 events of the       *)
(* subtitle file to entries (lines 172-186).  An event is [segs, tStartMs, *)
(* dDurationMs]; the model's events have times that are whole hundredths.  *)
(***************************************************************************)
RECURSIVE TextParts(_)
TextParts(segs) ==
    IF segs = << >> THEN << >>
    ELSE IF Strip(Head(segs)) # << >>
         THEN << Strip(Head(segs)) >> \o TextParts(Tail(segs))
         ELSE TextParts(Tail(segs))

RECURSIVE ParseEvents(_)
ParseEvents(events) ==
    IF events = << >> THEN << >>
    ELSE IF TextParts(Head(events).segs) # << >>
         THEN << [text |-> Join(Rep(" ", 1), TextParts(Head(events).segs)),
                  start |-> Head(events).tStartMs \div 10,
                  duration |-> Head(events).dDurationMs \div 10] >>
              \o ParseEvents(Tail(events))
         ELSE ParseEvents(Tail(events))

SubFlagsManualTwice == << "--write-sub", "--write-sub", "--write-auto-sub" >>

\* line 133
SubFlags == << "--write-sub", "--write-auto-sub" >>

SourceOfFlag(sub_flag) == IF sub_flag = "--write-sub" THEN "manual" ELSE "auto-generated"

(***************************************************************************)
(* _get_metadata_via_ytdlp.  dump is what the info-dump subprocess does:   *)
(* kind "missing" (tool not installed), "timeout", "nonzero", "malformed"  *)
(* (exit 0, stdout is no JSON object) or "ok", and the record on stdout.   *)
(***************************************************************************)
MetadataOfDump(video_id, data) ==
    [title |-> IF data.has_title THEN data.title ELSE Unknown,
     author |-> IF data.has_uploader THEN data.uploader
                ELSE IF data.has_channel THEN data.channel ELSE Unknown,
     channel_url |-> data.channel_url,
     upload_date |-> data.upload_date,
     duration_seconds |-> data.duration,
     description |-> Take(data.description, 500),
     video_id |-> video_id]

GetMetadataViaYtdlpNoExitCheck(video_id, dump) ==
    IF dump.kind \in {"ok", "nonzero"}
    THEN [raised |-> FALSE, value |-> MetadataOfDump(video_id, dump.data)]
    ELSE [raised |-> FALSE, value |-> DefaultMetadata(video_id)]

\* lines 196-225: every failure is answered with the defaults, nothing is raised
GetMetadataViaYtdlp(video_id, dump) ==
    IF dump.kind = "missing"
    THEN [raised |-> FALSE, value |-> DefaultMetadata(video_id)]
    ELSE IF dump.kind = "ok"
    THEN [raised |-> FALSE, value |-> MetadataOfDump(video_id, dump.data)]
    ELSE [raised |-> FALSE, value |-> DefaultMetadata(video_id)]

(***************************************************************************)
(* _get_metadata_via_api.  page is the answer to the HTTP GET: whether it  *)
(* arrived, and the texts of its title tag and ownerChannelName field.     *)
(***************************************************************************)
RECURSIVE RemoveSuffixPieces(_)
RemoveSuffixPieces(str) ==
    IF str = << >> THEN << >>
    ELSE IF << Head(str) >> = Lit(" - YouTube") THEN RemoveSuffixPieces(Tail(str))
    ELSE << Head(str) >> \o RemoveSuffixPieces(Tail(str))

GetMetadataViaApi(video_id, page) ==
    IF ~page.ok
    THEN [raised |-> FALSE, value |-> DefaultMetadata(video_id)]
    ELSE [raised |-> FALSE,
          value |-> [DefaultMetadata(video_id) EXCEPT
                       !.title = IF page.has_title
                                 THEN Strip(RemoveSuffixPieces(page.title)) ELSE Unknown,
                       !.author = IF page.has_author THEN page.author ELSE Unknown]]

(***************************************************************************)
(* youtube_get_transcript, the pure parts.                                 *)
(***************************************************************************)
\* line 400
EffectiveLanguages(languages) == IF languages = << >> THEN DEFAULT_LANGUAGES ELSE languages

\* lines 410 and 417: f"{backend}: {e}"
Diagnostic(backend, reason) == Lit(backend \o ": ") \o Lit(reason)

RECURSIVE DiagnosticLines(_)
DiagnosticLines(errs) ==
    IF errs = << >> THEN << >>
    ELSE << Lit("  - ") \o Head(errs) >> \o DiagnosticLines(Tail(errs))

ErrorTextLastOnly(vid, errs) ==
    Lit("Error: Could not retrieve transcript for video ") \o Lit(vid) \o Lit(".\n")
    \o Lit("Attempted methods:\n")
    \o Join(Lit("\n"), DiagnosticLines(SubSeq(errs, Len(errs), Len(errs)))) \o Lit("\n\n")
    \o Lit("Possible causes:\n  - The video has no captions/subtitles\n  - The video is private or age-restricted\n  - The requested languages are not available")

\* lines 420-427
ErrorText(video_id, errs) ==
    Lit("Error: Could not retrieve transcript for video ") \o Lit(video_id) \o Lit(".\n")
    \o Lit("Attempted methods:\n") \o Join(Lit("\n"), DiagnosticLines(errs)) \o Lit("\n\n")
    \o Lit("Possible causes:\n  - The video has no captions/subtitles\n  - The video is private or age-restricted\n  - The requested languages are not available")

ShouldTryYtdlpAlways(info) == TRUE

\* line 413
ShouldTryYtdlp(info) == info = None

TranscriptMissingNever(info) == FALSE

\* line 419
TranscriptMissing(info) == info = None

AcquireMetadataAlways(video_id, include_metadata, dump, page) ==
    [metadata |-> GetMetadataViaYtdlp(video_id, dump).value,
     invoked |-> << [op |-> "metadata-ytdlp",
                     result |-> IF dump.kind = "ok" THEN "ok" ELSE "fail"] >>]

\* lines 434-442: the metadata and the metadata backends invoked, in order
AcquireMetadata(video_id, include_metadata, dump, page) ==
    IF ~include_metadata
    THEN [metadata |-> DefaultMetadata(video_id), invoked |-> << >>]
    ELSE IF ~GetMetadataViaYtdlp(video_id, dump).raised
    THEN [metadata |-> GetMetadataViaYtdlp(video_id, dump).value,
          invoked |-> << [op |-> "metadata-ytdlp",
                          result |-> IF dump.kind = "ok" THEN "ok" ELSE "fail"] >>]
    ELSE IF ~GetMetadataViaApi(video_id, page).raised
    THEN [metadata |-> GetMetadataViaApi(video_id, page).value,
          invoked |-> << [op |-> "metadata-ytdlp", result |-> "fail"],
                         [op |-> "metadata-api",
                          result |-> IF page.ok THEN "ok" ELSE "fail"] >>]
    ELSE [metadata |-> DefaultMetadata(video_id),
          invoked |-> << [op |-> "metadata-ytdlp", result |-> "fail"],
                         [op |-> "metadata-api", result |-> "fail"] >>]

(***************************************************************************)
(* Bounds of the model and the inputs and answers it draws from.           *)
(***************************************************************************)
MaxRequests == 2

Processes == {"p1", "p2"}

Request(url, langs, include_timestamps, include_metadata) ==
    [url |-> url, languages |-> langs, include_timestamps |-> include_timestamps,
     include_metadata |-> include_metadata]

UrlA == "https://youtu.be/dQw4w9WgXcQ"

UrlB == "9bZkp7q19f0"

UrlBad == "not a video id"

UrlTooLong == "dQw4w9WgXcQQ"

\* the requests a client of a single server sends
Inputs ==
    { Request(UrlA, << >>, FALSE, TRUE),
      Request(UrlA, << "en", "ja" >>, TRUE, TRUE),
      Request(UrlB, << >>, TRUE, FALSE),
      Request(UrlBad, << >>, FALSE, TRUE),
      Request(UrlTooLong, << "en" >>, TRUE, TRUE) }

\* the requests the clients of two servers send
SharedInputs ==
    { Request(UrlA, << "en" >>, FALSE, FALSE),
      Request(UrlB, << "en" >>, FALSE, FALSE) }

LongTextLen == 250000

ShortEntries ==
    << [text |-> Rep(" ", 1) \o Rep("a", 5) \o Rep(" ", 2), start |-> 0, duration |-> 250],
       [text |-> Rep(" ", 3), start |-> 250, duration |-> 100],
       [text |-> Rep("b", 4), start |-> 12540, duration |-> 300] >>

LongEntries ==
    << [text |-> Rep("a", LongTextLen), start |-> 6100, duration |-> 500] >>

Transcript(lang, generated, fetch_ok, entries) ==
    [language_code |-> lang, is_generated |-> generated, fetch_ok |-> fetch_ok,
     entries |-> entries]

\* what the captioning service may answer in the request pipeline
ServiceAnswers ==
    { [list_ok |-> FALSE, transcript_list |-> << >>] }
    \cup { [list_ok |-> TRUE, transcript_list |-> l] : l \in
           { << >>,
             << Transcript("en", FALSE, TRUE, ShortEntries) >>,
             << Transcript("en", FALSE, FALSE, ShortEntries) >>,
             << Transcript("en", FALSE, TRUE, LongEntries),
                Transcript("ja", TRUE, TRUE, ShortEntries) >>,
             << Transcript("ja", TRUE, TRUE, LongEntries) >>,
             << Transcript("de", TRUE, TRUE, ShortEntries) >>,
             << Transcript("de", TRUE, FALSE, ShortEntries) >> } }

\* the contents a subtitle file may have: json3 events, or something json.load rejects
SubtitleEvents ==
    << [segs |-> << Rep("c", 2) \o Rep(" ", 1), Rep(" ", 1), Rep("d", 3) >>,
        tStartMs |-> 1500, dDurationMs |-> 2000],
       [segs |-> << Rep("\n", 1) >>, tStartMs |-> 3500, dDurationMs |-> 10] >>

FileData == {"events", "garbage"}

RunOutcomes == {"timeout", "nonzero", "zero"}

DumpData ==
    { [has_title |-> TRUE, title |-> Rep("T", 12), has_uploader |-> TRUE,
       uploader |-> Rep("U", 6), has_channel |-> TRUE, channel |-> Rep("C", 7),
       channel_url |-> Lit("https://www.youtube.com/@c"), upload_date |-> Lit("20240131"),
       duration |-> 125, description |-> Rep("D", 600)],
      [has_title |-> FALSE, title |-> << >>, has_uploader |-> FALSE,
       uploader |-> << >>, has_channel |-> TRUE, channel |-> Rep("C", 7),
       channel_url |-> << >>, upload_date |-> << >>,
       duration |-> NoDuration, description |-> << >>] }

NoData == CHOOSE d \in DumpData : ~d.has_title

Dumps ==
    { [kind |-> k, data |-> NoData] : k \in {"missing", "timeout", "malformed"} }
    \cup { [kind |-> k, data |-> d] : k \in {"nonzero", "ok"}, d \in DumpData }

Pages ==
    { [ok |-> FALSE, has_title |-> FALSE, title |-> << >>, has_author |-> FALSE,
       author |-> << >>],
      [ok |-> TRUE, has_title |-> TRUE, title |-> Rep("P", 9) \o Lit(" - YouTube"),
       has_author |-> TRUE, author |-> Rep("O", 5)] }

NoWorld == [service |-> CHOOSE s \in ServiceAnswers : ~s.list_ok,
            dump |-> CHOOSE d \in Dumps : d.kind = "missing",
            page |-> CHOOSE g \in Pages : ~g.ok]

(***************************************************************************)
(* State.  Each server process runs one request at a time (the handler     *)
(* never awaits); processes share the directory /tmp.                      *)
(***************************************************************************)
VARIABLES
    procs,            \* the server processes that are running
    workload,         \* the requests their clients may send
    served,           \* requests received so far, by all processes
    tmp,              \* /tmp: the subtitle files [vid, lang, by, flag, data]
    pc,               \* where each process's handler stands
    rid,              \* the number of the request a process is handling
    input,            \* params
    video_id,         \* line 399
    languages,        \* line 400
    transcript_info,  \* line 403
    errors,           \* line 404
    loc,              \* locals of _get_transcript_via_ytdlp: sub_flag, sub_files, sub_data
    response,         \* what the handler returned or raised
    calls,            \* history: the backends invoked by the request, with their results
    runs,             \* history: the subtitle subprocess runs of the request
    obtained,         \* history: language and kind of the transcript the result was read from
    touched,          \* history: accesses to subtitle files of a request in another process
    world,            \* history: what the captioning service and the metadata sources answered
    fn_args,          \* arguments of a function applied on its own
    fn_result         \* its result

reqvars == << pc, rid, input, video_id, languages, transcript_info, errors, loc, response,
              calls, runs, obtained, touched, world >>

fnvars == << fn_args, fn_result >>

vars == << procs, workload, served, tmp, reqvars, fnvars >>

NoResponse == [kind |-> "none"]

NoLoc == [sub_flag |-> 0, sub_files |-> << >>, sub_data |-> None, i |-> 0]

NoInput == Request(UrlBad, << >>, FALSE, FALSE)

\* no request received yet by the processes ps, whose clients send the requests of wl
Idle(ps, wl) ==
    /\ procs = ps
    /\ workload = wl
    /\ served = 0
    /\ tmp = {}
    /\ pc = [p \in Processes |-> "idle"]
    /\ rid = [p \in Processes |-> 0]
    /\ input = [p \in Processes |-> NoInput]
    /\ video_id = [p \in Processes |-> ""]
    /\ languages = [p \in Processes |-> << >>]
    /\ transcript_info = [p \in Processes |-> None]
    /\ errors = [p \in Processes |-> << >>]
    /\ loc = [p \in Processes |-> NoLoc]
    /\ response = [p \in Processes |-> NoResponse]
    /\ calls = [p \in Processes |-> << >>]
    /\ runs = [p \in Processes |-> << >>]
    /\ obtained = [p \in Processes |-> None]
    /\ touched = [p \in Processes |-> {}]
    /\ world = [p \in Processes |-> NoWorld]

\* one server process
Init ==
    /\ Idle({"p1"}, Inputs)
    /\ fn_args = None
    /\ fn_result = None

\* two server processes on one machine, sharing /tmp
InitShared ==
    /\ Idle(Processes, SharedInputs)
    /\ fn_args = None
    /\ fn_result = None

\* the last entry of the call history gets its result
Completed(history, ok) == [history EXCEPT ![Len(history)].result = IF ok THEN "ok" ELSE "fail"]

\* lines 399-404
Receive(p) ==
    /\ p \in procs
    /\ pc[p] \in {"idle", "done"}
    /\ served < MaxRequests
    /\ \E in \in workload :
         \E id \in { ExtractVideoId(in.url) } :
             /\ input' = [input EXCEPT ![p] = in]
             /\ video_id' = [video_id EXCEPT ![p] = IF id.raised THEN "" ELSE id.value]
             /\ languages' = [languages EXCEPT ![p] =
                                IF id.raised THEN << >> ELSE EffectiveLanguages(in.languages)]
             /\ response' = [response EXCEPT ![p] =
                               IF id.raised
                               THEN [kind |-> "raised", exc |-> id.value,
                                     url_or_id |-> id.url_or_id]
                               ELSE NoResponse]
             /\ pc' = [pc EXCEPT ![p] = IF id.raised THEN "done" ELSE "api"]
    /\ served' = served + 1
    /\ rid' = [rid EXCEPT ![p] = served + 1]
    /\ transcript_info' = [transcript_info EXCEPT ![p] = None]
    /\ errors' = [errors EXCEPT ![p] = << >>]
    /\ loc' = [loc EXCEPT ![p] = NoLoc]
    /\ calls' = [calls EXCEPT ![p] = << >>]
    /\ runs' = [runs EXCEPT ![p] = << >>]
    /\ obtained' = [obtained EXCEPT ![p] = None]
    /\ touched' = [touched EXCEPT ![p] = {}]
    /\ world' = [world EXCEPT ![p] = NoWorld]
    /\ UNCHANGED << procs, workload, tmp, fnvars >>

\* lines 419-427: with no transcript the handler returns the error text
AfterStrategies(p, info, errs) ==
    IF TranscriptMissing(info)
    THEN /\ response' = [response EXCEPT ![p] =
                           [kind |-> "returned", text |-> ErrorText(video_id[p], errs)]]
         /\ pc' = [pc EXCEPT ![p] = "done"]
    ELSE /\ pc' = [pc EXCEPT ![p] = "finish"]
         /\ UNCHANGED response

\* lines 406-413: strategy 1, the whole of _get_transcript_via_api
CallApi(p) ==
    /\ pc[p] = "api"
    /\ \E service \in ServiceAnswers :
         LET r == GetTranscriptViaApi(video_id[p], languages[p], service)
             info == IF r.raised THEN None ELSE r.value
             errs == IF r.raised
                     THEN Append(errors[p], Diagnostic("youtube-transcript-api", r.value))
                     ELSE errors[p]
         IN  /\ transcript_info' = [transcript_info EXCEPT ![p] = info]
             /\ errors' = [errors EXCEPT ![p] = errs]
             /\ obtained' = [obtained EXCEPT ![p] = IF r.raised THEN None ELSE r.obtained]
             /\ calls' = [calls EXCEPT ![p] =
                            Append(@, [op |-> "caption-api",
                                       result |-> IF r.raised THEN "fail" ELSE "ok"])]
             /\ world' = [world EXCEPT ![p].service = service]
             /\ IF ShouldTryYtdlp(info)
                THEN /\ pc' = [pc EXCEPT ![p] = "ytdlp"]
                     /\ UNCHANGED response
                ELSE AfterStrategies(p, info, errs)
    /\ UNCHANGED << procs, workload, served, tmp, rid, input, video_id, languages, loc, runs, touched,
                    fnvars >>

\* lines 416-417: _get_transcript_via_ytdlp raised
YtdlpRaised(p, reason) ==
    /\ errors' = [errors EXCEPT ![p] = Append(@, Diagnostic("yt-dlp", reason))]
    /\ calls' = [calls EXCEPT ![p] = Completed(@, FALSE)]
    /\ AfterStrategies(p, transcript_info[p], Append(errors[p], Diagnostic("yt-dlp", reason)))
    /\ UNCHANGED << transcript_info, obtained >>

\* lines 153-154, 160-161 and 191-193: continue with the next flag, or raise after the last
YtdlpContinue(p) ==
    IF loc[p].sub_flag < Len(SubFlags)
    THEN /\ loc' = [loc EXCEPT ![p] = [NoLoc EXCEPT !.sub_flag = loc[p].sub_flag + 1]]
         /\ pc' = [pc EXCEPT ![p] = "ytdlp_run"]
         /\ UNCHANGED << errors, calls, response, transcript_info, obtained >>
    ELSE /\ YtdlpRaised(p, "yt-dlp could not find subtitles")
         /\ UNCHANGED loc

\* lines 415 and 126-130: strategy 2 is entered
YtdlpWhich(p) ==
    /\ pc[p] = "ytdlp"
    /\ \E installed \in BOOLEAN :
         IF installed
         THEN /\ calls' = [calls EXCEPT ![p] =
                             Append(@, [op |-> "caption-ytdlp", result |-> "pending"])]
              /\ loc' = [loc EXCEPT ![p] = [NoLoc EXCEPT !.sub_flag = 1]]
              /\ pc' = [pc EXCEPT ![p] = "ytdlp_run"]
              /\ UNCHANGED << errors, response, transcript_info, obtained >>
         ELSE /\ errors' = [errors EXCEPT ![p] =
                              Append(@, Diagnostic("yt-dlp", "yt-dlp is not installed"))]
              /\ calls' = [calls EXCEPT ![p] =
                             Append(@, [op |-> "caption-ytdlp", result |-> "fail"])]
              /\ AfterStrategies(p, transcript_info[p],
                                 Append(errors[p], Diagnostic("yt-dlp", "yt-dlp is not installed")))
              /\ UNCHANGED << loc, transcript_info, obtained >>
    /\ UNCHANGED << procs, workload, served, tmp, rid, input, video_id, languages, runs, touched,
                    world, fnvars >>

Range(seq) == { seq[i] : i \in 1..Len(seq) }

\* the files of /tmp that glob's pattern /tmp/yt_{video_id}*.json3 matches
Matching(dir, vid) == { f \in dir : f.vid = vid }

FileAt(dir, name) == { f \in dir : f.vid = name.vid /\ f.lang = name.lang }

NameOf(f) == [vid |-> f.vid, lang |-> f.lang]

\* f was created by a request that another process is handling right now
Foreign(p, f) ==
    \E q \in Processes \ {p} : rid[q] = f.by /\ pc[q] \notin {"idle", "done"}

\* the orders in which a listing may give a set of names
Orderings(S) ==
    { o \in [1..Cardinality(S) -> S] : \A i, j \in 1..Cardinality(S) : i # j => o[i] # o[j] }

\* the sets of requested languages the video may have subtitles of: none, the first, the
\* first two
Available(langs) == { Range(SubSeq(langs, 1, n)) : n \in 0..(IF Len(langs) < 2 THEN Len(langs) ELSE 2) }

\* lines 134-154: one run of the tool with a subtitle flag.  With --sub-lang it writes
\* subtitle files of requested languages only, of some of them or of none, whatever way
\* it then ends.
YtdlpRun(p) ==
    /\ pc[p] = "ytdlp_run"
    /\ \E outcome \in RunOutcomes, written \in Available(languages[p]), data \in FileData :
         /\ tmp' = { f \in tmp : ~(f.vid = video_id[p] /\ f.lang \in written) }
                   \cup { [vid |-> video_id[p], lang |-> l, by |-> rid[p],
                           flag |-> SubFlags[loc[p].sub_flag], data |-> data] : l \in written }
         /\ runs' = [runs EXCEPT ![p] =
                       Append(@, [flag |-> SubFlags[loc[p].sub_flag], outcome |-> outcome])]
         /\ CASE outcome = "timeout" ->
                   /\ YtdlpRaised(p, "TimeoutExpired")
                   /\ UNCHANGED loc
              [] outcome = "nonzero" -> YtdlpContinue(p)
              [] outcome = "zero" ->
                   /\ pc' = [pc EXCEPT ![p] = "ytdlp_glob"]
                   /\ UNCHANGED << loc, errors, calls, response, transcript_info, obtained >>
    /\ UNCHANGED << procs, workload, served, rid, input, video_id, languages, touched, world, fnvars >>

\* lines 159-161
YtdlpGlob(p) ==
    /\ pc[p] = "ytdlp_glob"
    /\ IF Matching(tmp, video_id[p]) = {}
       THEN YtdlpContinue(p)
       ELSE /\ \E sub_files \in Orderings({ NameOf(f) : f \in Matching(tmp, video_id[p]) }) :
                 loc' = [loc EXCEPT ![p].sub_files = sub_files]
            /\ pc' = [pc EXCEPT ![p] = "ytdlp_open"]
            /\ UNCHANGED << errors, calls, response, transcript_info, obtained >>
    /\ UNCHANGED << procs, workload, served, tmp, rid, input, video_id, languages, runs, touched,
                    world, fnvars >>

\* lines 163-164: open and json.load of sub_files[0]
YtdlpOpen(p) ==
    /\ pc[p] = "ytdlp_open"
    /\ LET here == FileAt(tmp, loc[p].sub_files[1])
       IN  IF here = {}
           THEN /\ YtdlpRaised(p, "FileNotFoundError")
                /\ UNCHANGED << loc, touched >>
           ELSE LET f == CHOOSE g \in here : TRUE
                IN  /\ touched' = [touched EXCEPT ![p] =
                                     IF Foreign(p, f) THEN @ \cup {"read"} ELSE @]
                    /\ IF f.data = "garbage"
                       THEN /\ YtdlpRaised(p, "JSONDecodeError")
                            /\ UNCHANGED loc
                       ELSE /\ loc' = [loc EXCEPT ![p].sub_data = f, ![p].i = 1]
                            /\ pc' = [pc EXCEPT ![p] = "ytdlp_remove"]
                            /\ UNCHANGED << errors, calls, response, transcript_info,
                                            obtained >>
    /\ UNCHANGED << procs, workload, served, tmp, rid, input, video_id, languages, runs, world, fnvars >>

\* lines 167-170, one os.remove; after the last one lines 172-189 and 419
YtdlpRemove(p) ==
    /\ pc[p] = "ytdlp_remove"
    /\ LET here == FileAt(tmp, loc[p].sub_files[loc[p].i])
       IN  IF here = {}
           THEN /\ YtdlpRaised(p, "FileNotFoundError")
                /\ UNCHANGED << loc, touched, tmp >>
           ELSE /\ tmp' = tmp \ here
                /\ touched' = [touched EXCEPT ![p] =
                                 IF \E f \in here : Foreign(p, f) THEN @ \cup {"remove"} ELSE @]
                /\ IF loc[p].i < Len(loc[p].sub_files)
                   THEN /\ loc' = [loc EXCEPT ![p].i = @ + 1]
                        /\ UNCHANGED << pc, errors, calls, response, transcript_info, obtained >>
                   ELSE /\ transcript_info' = [transcript_info EXCEPT ![p] =
                              [entries |-> ParseEvents(SubtitleEvents),
                               language |-> "detected",
                               source |-> SourceOfFlag(SubFlags[loc[p].sub_flag])]]
                        /\ obtained' = [obtained EXCEPT ![p] =
                              [language |-> loc[p].sub_data.lang,
                               source |-> SourceOfFlag(loc[p].sub_data.flag)]]
                        /\ calls' = [calls EXCEPT ![p] = Completed(@, TRUE)]
                        /\ pc' = [pc EXCEPT ![p] = "finish"]
                        /\ UNCHANGED << loc, errors, response >>
    /\ UNCHANGED << procs, workload, served, rid, input, video_id, languages, runs, world, fnvars >>

\* lines 429-444: format, fetch the metadata, build and return the document
FinishDocument(p) ==
    /\ pc[p] = "finish"
    /\ \E dump \in Dumps, page \in Pages :
         LET transcript_text == FormatTranscriptText(transcript_info[p].entries,
                                                     input[p].include_timestamps)
             m == AcquireMetadata(video_id[p], input[p].include_metadata, dump, page)
         IN  /\ input[p].include_metadata \/ (dump = NoWorld.dump /\ page = NoWorld.page)
             /\ world' = [world EXCEPT ![p].dump = dump, ![p].page = page]
             /\ calls' = [calls EXCEPT ![p] = @ \o m.invoked]
             /\ response' = [response EXCEPT ![p] =
                               [kind |-> "returned",
                                text |-> BuildMarkdownOutput(m.metadata, transcript_text,
                                                             transcript_info[p], video_id[p])]]
    /\ pc' = [pc EXCEPT ![p] = "done"]
    /\ UNCHANGED << procs, workload, served, tmp, rid, input, video_id, languages, transcript_info,
                    errors, loc, runs, obtained, touched, fnvars >>

Next ==
    \E p \in Processes :
        \/ Receive(p)
        \/ CallApi(p)
        \/ YtdlpWhich(p)
        \/ YtdlpRun(p)
        \/ YtdlpGlob(p)
        \/ YtdlpOpen(p)
        \/ YtdlpRemove(p)
        \/ FinishDocument(p)

Spec == Init /\ [][Next]_vars

SpecShared == InitShared /\ [][Next]_vars

(***************************************************************************)
(* The transcript selection of _get_transcript_via_api applied on its own, *)
(* to every language list and every list of offered transcripts within the *)
(* bounds.  The service lists manual transcripts before generated ones and *)
(* has at most one transcript of a kind per language.                      *)
(***************************************************************************)
MaxLanguages == 2

MaxOffered == 3

SelectLanguages == {"ja", "en", "de"}

LanguageLists == UNION { [1..n -> SelectLanguages] : n \in 1..MaxLanguages }

Offers == { Transcript(l, g, TRUE, ShortEntries) : l \in SelectLanguages, g \in BOOLEAN }

TranscriptLists ==
    { o \in UNION { [1..n -> Offers] : n \in 0..MaxOffered } :
        /\ \A i, j \in 1..Len(o) : i # j => o[i] # o[j]
        /\ \A i, j \in 1..Len(o) : (i < j /\ o[i].is_generated) => o[j].is_generated }

InitSelect ==
    /\ Idle({}, {})
    /\ fn_args \in [languages : LanguageLists, transcript_list : TranscriptLists]
    /\ fn_result = None

ApplySelect ==
    /\ fn_result = None
    /\ fn_result' = [value |-> SelectTranscript(fn_args.transcript_list, fn_args.languages)]
    /\ UNCHANGED << procs, workload, served, tmp, reqvars, fn_args >>

NextSelect == ApplySelect

SpecSelect == InitSelect /\ [][NextSelect]_vars

(***************************************************************************)
(* _build_markdown_output applied on its own, to documents whose length    *)
(* before the bound is at, just below, just above and far above the        *)
(* ceiling, and to short ones.                                             *)
(***************************************************************************)
BuildDurations == {NoDuration, 0, 59, 3725}

BuildUploadDates == { << >>, Lit("2024") }

BuildDescriptions == { << >>, Rep("D", 3) }

BuildMetadatas ==
    { DefaultMetadata(v) : v \in {"dQw4w9WgXcQ"} }
    \cup { MetadataOfDump("dQw4w9WgXcQ", d) : d \in DumpData }
    \cup { [DefaultMetadata("dQw4w9WgXcQ") EXCEPT !.title = Rep("T", 12),
                                                  !.duration_seconds = n,
                                                  !.upload_date = u,
                                                  !.description = ds] :
             n \in BuildDurations, u \in BuildUploadDates, ds \in BuildDescriptions }

BuildInfos ==
    { [entries |-> ShortEntries, language |-> "en", source |-> "manual"],
      [entries |-> ShortEntries, language |-> "detected", source |-> "auto-generated"] }

BuildVideoIds == {"dQw4w9WgXcQ", "9bZkp7q19f0"}

\* lengths of the assembled document, relative to the ceiling
Overshoots == {-1, 0, 1, 50000}

ShortTexts == { FormatTranscriptText(ShortEntries, ts) : ts \in BOOLEAN } \cup { << >> }

\* the transcript text that makes the assembled document d characters longer than the ceiling
TextToOvershoot(metadata, info, vid, d) ==
    Rep("a", MAX_TRANSCRIPT_CHARS + d - StrLen(AssembleDocument(metadata, << >>, info, vid)))

InitBuild ==
    /\ Idle({}, {})
    /\ \E metadata \in BuildMetadatas, info \in BuildInfos, vid \in BuildVideoIds :
         \E text \in ShortTexts \cup { TextToOvershoot(metadata, info, vid, d) : d \in Overshoots } :
            fn_args = [metadata |-> metadata, transcript_text |-> text,
                       transcript_info |-> info, video_id |-> vid]
    /\ fn_result = None

ApplyBuild ==
    /\ fn_result = None
    /\ fn_result' = [value |-> BuildMarkdownOutput(fn_args.metadata, fn_args.transcript_text,
                                                   fn_args.transcript_info, fn_args.video_id)]
    /\ UNCHANGED << procs, workload, served, tmp, reqvars, fn_args >>

NextBuild == ApplyBuild

SpecBuild == InitBuild /\ [][NextBuild]_vars

(***************************************************************************)
(* _extract_video_id applied on its own: to an identifier x embedded in    *)
(* each URL shape and given bare, with and without scheme, host prefix,    *)
(* trailing parameters and surrounding blanks, and to malformed inputs.    *)
(* fn_args records the x the input was built from ("" for a malformed      *)
(* input) next to the input.                                               *)
(***************************************************************************)
ExtractIds == {"dQw4w9WgXcQ", "9bZkp7q19f0", "_-_-_-_-_-_", "v_watch-v_0"}

Embeddings == {"youtube.com/watch?v=", "youtube.com/watch?feature=share&v=", "youtu.be/",
               "youtube.com/embed/", "youtube.com/v/", "youtube.com/shorts/"}

UrlPrefixes == {"", "https://", "https://www.", "http://m."}

UrlSuffixes == {"", "?t=42", "&list=PL0123456789abcdefg"}

Paddings == { << "", "" >>, << "  ", "\n" >> }

WellFormedInputs ==
    { [url |-> pad[1] \o pre \o emb \o x \o suf \o pad[2], x |-> x, shape |-> emb] :
        pad \in Paddings, pre \in UrlPrefixes, emb \in Embeddings, x \in ExtractIds,
        suf \in UrlSuffixes }
    \cup { [url |-> pad[1] \o x \o pad[2], x |-> x, shape |-> "bare"] :
             pad \in Paddings, x \in ExtractIds }

MalformedUrls ==
    { "", "not a video id", "dQw4w9WgXc", "dQw4w9WgXcQQ", "dQw4w9WgXc!", "dQw4w 9WgXcQ",
      "https://youtu.be/short", "https://youtu.be/", "https://vimeo.com/12345678901",
      "https://www.youtube.com/watch?x=dQw4w9WgXcQ", "https://www.youtube.com/watch?v=",
      "https://www.youtube.com/playlist?list=PL0123456789abcdefg",
      "https://www.youtube.com/@channel", "youtube.com/embed/dQw4w9Wg?cQ" }

MalformedInputs == { [url |-> u, x |-> "", shape |-> "malformed"] : u \in MalformedUrls }

InitExtract ==
    /\ Idle({}, {})
    /\ fn_args \in WellFormedInputs \cup MalformedInputs
    /\ fn_result = None

ApplyExtract ==
    /\ fn_result = None
    /\ fn_result' = ExtractVideoId(fn_args.url)
    /\ UNCHANGED << procs, workload, served, tmp, reqvars, fn_args >>

NextExtract == ApplyExtract

SpecExtract == InitExtract /\ [][NextExtract]_vars

(***************************************************************************)
(* _format_transcript_text applied on its own, to every sequence of at     *)
(* most MaxEntries entries of a pool: texts with blanks around them, blank *)
(* and empty texts, a text with a line break inside, equal entries, and    *)
(* starts (in hundredths of a second) below and above one minute, one hour *)
(* and one hundred minutes, in any order.                                  *)
(***************************************************************************)
MaxEntries == 3

EntryPool ==
    { [text |-> Rep(" ", 1) \o Rep("a", 5) \o Rep(" ", 2), start |-> 0, duration |-> 250],
      [text |-> Rep(" ", 3), start |-> 250, duration |-> 100],
      [text |-> << >>, start |-> 5999, duration |-> 1],
      [text |-> Rep("b", 4), start |-> 12540, duration |-> 300],
      [text |-> Rep("\n", 1) \o Lit("c d") \o Rep("\n", 1) \o Lit("e") \o Rep("\t", 1),
       start |-> 5999, duration |-> 1],
      [text |-> Lit("f"), start |-> 6000, duration |-> 10],
      [text |-> Lit("g"), start |-> 359999, duration |-> 10],
      [text |-> Lit("h"), start |-> 726599, duration |-> 10] }

EntryLists == UNION { [1..n -> EntryPool] : n \in 0..MaxEntries }

InitFormat ==
    /\ Idle({}, {})
    /\ fn_args \in [entries : EntryLists, include_timestamps : BOOLEAN]
    /\ fn_result = None

ApplyFormat ==
    /\ fn_result = None
    /\ fn_result' = [lines |-> FormatLines(fn_args.entries, fn_args.include_timestamps),
                     value |-> FormatTranscriptText(fn_args.entries,
                                                    fn_args.include_timestamps)]
    /\ UNCHANGED << procs, workload, served, tmp, reqvars, fn_args >>

NextFormat == ApplyFormat

SpecFormat == InitFormat /\ [][NextFormat]_vars

(***************************************************************************)
(* Properties.                                                             *)
(***************************************************************************)
IsCaption(c) == c.op \in {"caption-api", "caption-ytdlp"}

CaptionCalls(p) == SelectSeq(calls[p], IsCaption)

Returned(p) == pc[p] = "done" /\ response[p].kind = "returned"

\* the positions of a piece in a text
Positions(text, piece) == { i \in 1..Len(text) : << text[i] >> = piece }

IsErrorForm(text) ==
    /\ text # << >>
    /\ << text[1] >> = Lit("Error: Could not retrieve transcript for video ")

IsMarkdownForm(text) ==
    /\ text # << >>
    /\ << text[1] >> = Lit("---\n")
    /\ Positions(text, Lit("\n## Transcript\n\n")) # {}

\* the backends the diagnostic lines of an error text name, in the order of the lines
RECURSIVE LabelsFrom(_, _)
LabelsFrom(text, i) ==
    IF i >= Len(text) THEN << >>
    ELSE IF << text[i] >> = Lit("  - ") THEN << text[i + 1].s >> \o LabelsFrom(text, i + 1)
    ELSE LabelsFrom(text, i + 1)

DiagnosticLabels(text) == LabelsFrom(text, 1)

LabelOf(c) == IF c.op = "caption-api" THEN "youtube-transcript-api: " ELSE "yt-dlp: "

\* C1: in every request the caption backends are invoked in priority order, the
\* structured-service backend first and the command-line backend only after the
\* structured-service backend failed, and no caption backend is invoked after one succeeded.
C1_BackendOrder ==
    \A p \in Processes :
        LET c == CaptionCalls(p)
        IN  /\ Len(c) >= 1 => c[1].op = "caption-api"
            /\ \A i \in 1..Len(c) :
                 c[i].op = "caption-ytdlp" =>
                    \E j \in 1..(i - 1) : c[j].op = "caption-api" /\ c[j].result = "fail"
            /\ \A i, j \in 1..Len(c) : i < j => c[i].result # "ok"

C1_Witness ==
    \E p \in Processes :
        /\ pc[p] = "done"
        /\ CaptionCalls(p) = << [op |-> "caption-api", result |-> "fail"],
                                [op |-> "caption-ytdlp", result |-> "ok"] >>

\* C2: when every attempted caption backend failed, the request returns the plain-text
\* error form and not the Markdown form, without transcript content; the error names the
\* video id and has exactly one diagnostic line per attempted backend, in the order of the
\* attempts.
C2_AllFailError ==
    \A p \in Processes :
        (/\ pc[p] = "done"
         /\ CaptionCalls(p) # << >>
         /\ \A i \in 1..Len(CaptionCalls(p)) : CaptionCalls(p)[i].result = "fail")
        => /\ response[p].kind = "returned"
           /\ IsErrorForm(response[p].text)
           /\ ~IsMarkdownForm(response[p].text)
           /\ << response[p].text[2] >> = Lit(video_id[p])
           /\ transcript_info[p] = None
           /\ Positions(response[p].text, Lit("\n## Transcript\n\n")) = {}
           /\ DiagnosticLabels(response[p].text)
                = [i \in 1..Len(CaptionCalls(p)) |-> LabelOf(CaptionCalls(p)[i])]

C2_Witness ==
    \E p \in Processes :
        /\ pc[p] = "done"
        /\ CaptionCalls(p) = << [op |-> "caption-api", result |-> "fail"],
                                [op |-> "caption-ytdlp", result |-> "fail"] >>
        /\ Len(DiagnosticLabels(response[p].text)) = 2

\* C3 as claimed: once the command-line caption backend has returned or raised, no
\* subtitle file that this invocation created is left in /tmp.
C3_NoTempFileLeft ==
    \A p \in Processes :
        (\E i \in 1..Len(calls[p]) :
            calls[p][i].op = "caption-ytdlp" /\ calls[p][i].result # "pending")
        => ~\E f \in tmp : f.by = rid[p]

\* C4 as claimed: in a finished request the page-scrape backend was invoked exactly when
\* the info-dump backend was invoked and failed.
C4_ScrapeAfterDumpFailure ==
    \A p \in Processes :
        Returned(p) =>
            ((\E i \in 1..Len(calls[p]) :
                 calls[p][i].op = "metadata-ytdlp" /\ calls[p][i].result = "fail")
             <=> (\E i \in 1..Len(calls[p]) : calls[p][i].op = "metadata-api"))

HeaderUnknown(text) ==
    /\ Len(text) >= 8
    /\ SubSeq(text, 1, 8) = Lit("---\n") \o Lit("title: \"") \o Unknown \o Lit("\"") \o Lit("\n")
                            \o Lit("author: \"") \o Unknown \o Lit("\"")

\* the part of a document from the transcript heading on
TranscriptSectionOf(text) ==
    IF Positions(text, Lit("\n## Transcript\n\n")) = {} THEN << >>
    ELSE SubSeq(text, MinOf(Positions(text, Lit("\n## Transcript\n\n"))), Len(text))

\* what a metadata backend that succeeds may produce
SuccessMetadatas(vid) ==
    { MetadataOfDump(vid, d) : d \in DumpData }
    \cup { GetMetadataViaApi(vid, g).value : g \in { h \in Pages : h.ok } }

\* both metadata sources fail in this request
MetadataFailed(p) ==
    input[p].include_metadata /\ world[p].dump.kind # "ok" /\ ~world[p].page.ok

TextOf(p) == FormatTranscriptText(transcript_info[p].entries, input[p].include_timestamps)

\* C5 as claimed: a request whose transcript acquisition succeeded returns the Markdown
\* document whatever the metadata sources do; when both fail the header has title and
\* author "Unknown" and the transcript section equals the one of the document built with
\* any successful metadata.
C5_TranscriptSectionUnaffected ==
    \A p \in Processes :
        (pc[p] = "done" /\ transcript_info[p] # None)
        => /\ response[p].kind = "returned"
           /\ IsMarkdownForm(response[p].text)
           /\ MetadataFailed(p) =>
                /\ HeaderUnknown(response[p].text)
                /\ \A m \in SuccessMetadatas(video_id[p]) :
                     TranscriptSectionOf(response[p].text)
                       = TranscriptSectionOf(BuildMarkdownOutput(m, TextOf(p),
                                                                 transcript_info[p], video_id[p]))

\* C5 amended: a request whose transcript acquisition succeeded returns the Markdown
\* document whatever the metadata sources do; when both fail the header has title and
\* author "Unknown", and the transcript section equals the one of the document built with
\* any successful metadata whenever neither document exceeds the ceiling before bounding.
C5_MetadataFailureAbsorbed ==
    \A p \in Processes :
        (pc[p] = "done" /\ transcript_info[p] # None)
        => /\ response[p].kind = "returned"
           /\ IsMarkdownForm(response[p].text)
           /\ MetadataFailed(p) =>
                /\ HeaderUnknown(response[p].text)
                /\ \A m \in SuccessMetadatas(video_id[p]) :
                     (/\ StrLen(AssembleDocument(m, TextOf(p), transcript_info[p], video_id[p]))
                           <= MAX_TRANSCRIPT_CHARS
                      /\ StrLen(AssembleDocument(DefaultMetadata(video_id[p]), TextOf(p),
                                                 transcript_info[p], video_id[p]))
                           <= MAX_TRANSCRIPT_CHARS)
                     => TranscriptSectionOf(response[p].text)
                          = TranscriptSectionOf(BuildMarkdownOutput(m, TextOf(p),
                                                                    transcript_info[p],
                                                                    video_id[p]))

C5_Witness ==
    \E p \in Processes :
        /\ Returned(p)
        /\ transcript_info[p] # None
        /\ MetadataFailed(p)
        /\ world[p].dump.kind = "timeout"
        /\ HeaderUnknown(response[p].text)
        /\ StrLen(response[p].text) <= MAX_TRANSCRIPT_CHARS
        /\ Len(TranscriptSectionOf(response[p].text)) > 2

\* C6: the structured-service backend selects the manual transcript of the earliest
\* language of the list that has a manual transcript, if any language has one; otherwise
\* the auto-generated transcript of the earliest language of the list that has one; and
\* tags the result with that language and with manual or auto-generated accordingly.
C6_Selection ==
    fn_result # None =>
        LET ls == fn_args.languages
            tl == fn_args.transcript_list
            r == fn_result.value
            Has(l, g) == \E i \in 1..Len(tl) : tl[i].language_code = l /\ tl[i].is_generated = g
            M == { i \in 1..Len(ls) : Has(ls[i], FALSE) }
            G == { i \in 1..Len(ls) : Has(ls[i], TRUE) }
        IN  /\ M # {} =>
                 /\ r # None
                 /\ r.source = "manual" /\ r.lang_found = ls[MinOf(M)]
                 /\ r.transcript.language_code = ls[MinOf(M)] /\ ~r.transcript.is_generated
            /\ (M = {} /\ G # {}) =>
                 /\ r # None
                 /\ r.source = "auto-generated" /\ r.lang_found = ls[MinOf(G)]
                 /\ r.transcript.language_code = ls[MinOf(G)] /\ r.transcript.is_generated

\* a manual transcript in the second language is chosen over an auto-generated one in the first
C6_Witness ==
    /\ fn_result # None
    /\ fn_args.languages = << "ja", "en" >>
    /\ fn_args.transcript_list = << Transcript("en", FALSE, TRUE, ShortEntries),
                                    Transcript("ja", TRUE, TRUE, ShortEntries) >>
    /\ fn_result.value.lang_found = "en"
    /\ fn_result.value.source = "manual"

\* C7 as claimed: every result of a caption backend carries the language code and the
\* generation source of the transcript it was read from.
C7_ResultTagged ==
    \A p \in Processes :
        transcript_info[p] # None =>
            /\ transcript_info[p].language = obtained[p].language
            /\ transcript_info[p].source = obtained[p].source

YtdlpFinished(p) ==
    \E i \in 1..Len(calls[p]) : calls[p][i].op = "caption-ytdlp" /\ calls[p][i].result # "pending"

\* C8 as claimed: a timed-out subprocess is an ordinary failure after which the next
\* strategy is tried: after a timed-out manual subtitle run the auto-generated run is still
\* made, after a timed-out metadata dump the page scrape is made, and no timeout ends the
\* request with an exception.
C8_TimeoutThenNextStrategy ==
    \A p \in Processes :
        /\ (YtdlpFinished(p)
            /\ \E i \in 1..Len(runs[p]) :
                 runs[p][i].flag = "--write-sub" /\ runs[p][i].outcome = "timeout")
           => \E i \in 1..Len(runs[p]) : runs[p][i].flag = "--write-auto-sub"
        /\ (Returned(p) /\ transcript_info[p] # None /\ input[p].include_metadata
            /\ world[p].dump.kind = "timeout")
           => \E i \in 1..Len(calls[p]) : calls[p][i].op = "metadata-api"
        /\ (pc[p] = "done" /\ calls[p] # << >>) => response[p].kind = "returned"

\* C9 as claimed: of two requests handled at the same time, neither reads or removes a
\* subtitle file of the other, and neither ends the way it could not end alone (with a
\* subtitle file it had listed gone).
C9_NoSharedFiles ==
    \A p \in Processes :
        /\ touched[p] = {}
        /\ \A i \in 1..Len(errors[p]) : errors[p][i] # Diagnostic("yt-dlp", "FileNotFoundError")

\* C10: a document of at most 200,000 characters is returned unchanged; a longer one is
\* cut to its first 200,000 characters followed by the truncation marker, so its length is
\* 200,000 plus the marker's length; no returned document is longer than that.
C10_Truncation ==
    fn_result # None =>
        LET doc == AssembleDocument(fn_args.metadata, fn_args.transcript_text,
                                    fn_args.transcript_info, fn_args.video_id)
            out == fn_result.value
        IN  /\ StrLen(doc) <= 200000 => out = doc
            /\ StrLen(doc) > 200000 =>
                 /\ Take(out, 200000) = Take(doc, 200000)
                 /\ Drop(out, 200000) = TruncationMarker
                 /\ StrLen(out) = 200000 + StrLen(TruncationMarker)
            /\ StrLen(out) <= 200000 + StrLen(TruncationMarker)

\* a document of 250,000 characters comes out 200,000 plus the marker's 46 characters long
C10_Witness ==
    /\ fn_result # None
    /\ StrLen(AssembleDocument(fn_args.metadata, fn_args.transcript_text,
                               fn_args.transcript_info, fn_args.video_id)) = 250000
    /\ StrLen(fn_result.value) = 200046

\* C11: for every well-formed 11-character identifier x, the extractor returns exactly x
\* for x embedded in each of the five URL shapes and for the bare string x; and every value
\* the extractor returns is exactly 11 characters of letters, digits, '_' and '-'.
C11_ExtractsIdentifier ==
    fn_result # None =>
        /\ fn_args.x # "" => (~fn_result.raised /\ fn_result.value = fn_args.x)
        /\ ~fn_result.raised =>
             /\ Len(fn_result.value) = 11
             /\ \A j \in 1..Len(fn_result.value) : IsIdChar(CharAt(fn_result.value, j))

\* the identifier of a shorts URL with a trailing parameter
C11_Witness ==
    /\ fn_result # None
    /\ fn_args.url = "https://www.youtube.com/shorts/_-_-_-_-_-_?t=42"
    /\ ~fn_result.raised
    /\ fn_result.value = "_-_-_-_-_-_"

\* the inputs of the request pipeline that match no URL shape and are not 11 identifier
\* characters
MalformedRequestUrls == {"not a video id", "dQw4w9WgXcQQ"}

\* C12: a request whose input matches none of the URL shapes and is not exactly an
\* 11-character identifier fails with the invalid-identifier error carrying the input, and
\* fails fast: no caption backend and no metadata backend is invoked, no subprocess is run
\* and no file is written for it.
C12_MalformedFailsFast ==
    \A p \in Processes :
        (pc[p] # "idle" /\ input[p].url \in MalformedRequestUrls)
        => /\ pc[p] = "done"
           /\ response[p] = [kind |-> "raised", exc |-> "ValueError",
                             url_or_id |-> input[p].url]
           /\ calls[p] = << >>
           /\ runs[p] = << >>
           /\ transcript_info[p] = None
           /\ ~\E f \in tmp : f.by = rid[p]

\* a 12-character input is refused as the second request, after a first one left a file
C12_Witness ==
    \E p \in Processes :
        /\ pc[p] = "done"
        /\ rid[p] = 2
        /\ input[p].url = "dQw4w9WgXcQQ"
        /\ response[p].kind = "raised"
        /\ response[p].url_or_id = "dQw4w9WgXcQQ"
        /\ tmp # {}

\* C13: within one request no acquisition strategy is attempted twice: the
\* structured-service caption backend, the command-line caption backend and each metadata
\* backend are invoked at most once, and the command-line backend issues its manual and
\* its auto-generated subtitle request at most once each.
C13_AtMostOnce ==
    \A p \in Processes :
        /\ \A o \in {"caption-api", "caption-ytdlp", "metadata-ytdlp", "metadata-api"} :
             Cardinality({ i \in 1..Len(calls[p]) : calls[p][i].op = o }) <= 1
        /\ \A f \in {"--write-sub", "--write-auto-sub"} :
             Cardinality({ i \in 1..Len(runs[p]) : runs[p][i].flag = f }) <= 1

\* a request in which both caption backends and both subtitle requests were made, and
\* the metadata was then asked for
C13_Witness ==
    \E p \in Processes :
        /\ pc[p] = "done"
        /\ Len(runs[p]) = 2
        /\ runs[p][1].flag = "--write-sub" /\ runs[p][1].outcome = "nonzero"
        /\ runs[p][2].flag = "--write-auto-sub" /\ runs[p][2].outcome = "zero"
        /\ Len(calls[p]) = 3
        /\ calls[p][1] = [op |-> "caption-api", result |-> "fail"]
        /\ calls[p][2] = [op |-> "caption-ytdlp", result |-> "ok"]
        /\ calls[p][3].op = "metadata-ytdlp"

RECURSIVE RepeatChar(_, _)
RepeatChar(c, n) == IF n = 0 THEN "" ELSE c \o RepeatChar(c, n - 1)

\* the characters of a string of pieces
RECURSIVE Chars(_)
Chars(str) ==
    IF str = << >> THEN ""
    ELSE (IF Head(str).k = "lit"
          THEN SubSeq(Head(str).s, Head(str).off + 1, Head(str).off + Head(str).n)
          ELSE RepeatChar(Head(str).s, Head(str).n))
         \o Chars(Tail(str))

RECURSIVE JoinChars(_, _)
JoinChars(sep, strs) ==
    IF strs = << >> THEN ""
    ELSE IF Len(strs) = 1 THEN strs[1]
    ELSE strs[1] \o sep \o JoinChars(sep, Tail(strs))

\* the text of an entry without the white space around it, as characters
Trimmed(e) == StripChars(Chars(e.text))

\* the entries whose trimmed text is not empty, and the place of such an entry among them
NonBlank(entries) == { i \in 1..Len(entries) : Trimmed(entries[i]) # "" }

Rank(entries, i) == Cardinality({ j \in NonBlank(entries) : j <= i })

FirstIndexOf(s, c) == MinOf({ j \in 1..Len(s) : CharAt(s, j) = c })

\* a line without its timecode prefix
AfterStamp(s) == SubSeq(s, FirstIndexOf(s, "]") + 2, Len(s))

\* C14: the formatter emits one line per entry whose trimmed text is not empty, in the
\* order of the entries, and the text of the line is exactly the trimmed text of its entry;
\* entries with blank text give no line, equal and adjacent entries each give their own;
\* the output is these lines joined with single line breaks, and is empty when every entry
\* is blank.
C14_LinesAreTrimmedTexts ==
    fn_result # None =>
        LET es == fn_args.entries
            ts == fn_args.include_timestamps
            lines == fn_result.lines
        IN  /\ Len(lines) = Cardinality(NonBlank(es))
            /\ \A i \in NonBlank(es) :
                 LET s == Chars(lines[Rank(es, i)])
                 IN  IF ts
                     THEN /\ \E j \in 1..Len(s) : CharAt(s, j) = "]"
                          /\ AfterStamp(s) = Trimmed(es[i])
                     ELSE s = Trimmed(es[i])
            /\ Chars(fn_result.value)
                 = JoinChars("\n", [k \in 1..Len(lines) |-> Chars(lines[k])])
            /\ NonBlank(es) = {} => fn_result.value = << >>

\* of a blank entry between two equal entries only the two equal lines come out
C14_Witness ==
    /\ fn_result # None
    /\ ~fn_args.include_timestamps
    /\ Len(fn_args.entries) = 3
    /\ fn_args.entries[1] = fn_args.entries[3]
    /\ Chars(fn_args.entries[1].text) = " aaaaa  "
    /\ Chars(fn_args.entries[2].text) = "   "
    /\ Chars(fn_result.value) = "aaaaa\naaaaa"

IsDigit(c) == \E d \in 0..9 : ToString(d) = c

DigitVal(c) == CHOOSE d \in 0..9 : ToString(d) = c

RECURSIVE NumVal(_)
NumVal(s) ==
    IF Len(s) = 0 THEN 0
    ELSE 10 * NumVal(SubSeq(s, 1, Len(s) - 1)) + DigitVal(CharAt(s, Len(s)))

\* C15: with timecodes enabled every emitted line starts with [MM:SS] and a blank, where MM
\* and SS are decimal numbers of at least two digits, zero-padded, with 0 <= SS <= 59,
\* MM = floor(s/60) and 60*MM + SS = floor(s) for the start s of the entry (here in
\* hundredths of a second); with timecodes disabled the line is the trimmed text alone.
C15_Timecodes ==
    fn_result # None =>
        LET es == fn_args.entries
            lines == fn_result.lines
        IN  \A i \in NonBlank(es) :
              LET s == Chars(lines[Rank(es, i)])
              IN  IF fn_args.include_timestamps
                  THEN /\ CharAt(s, 1) = "["
                       /\ \E j \in 1..Len(s) : CharAt(s, j) = ":"
                       /\ \E j \in 1..Len(s) : CharAt(s, j) = "]"
                       /\ LET colon == FirstIndexOf(s, ":")
                              close == FirstIndexOf(s, "]")
                              mm == SubSeq(s, 2, colon - 1)
                              ss == SubSeq(s, colon + 1, close - 1)
                          IN  /\ colon < close
                              /\ CharAt(s, close + 1) = " "
                              /\ \A j \in 1..Len(mm) : IsDigit(CharAt(mm, j))
                              /\ \A j \in 1..Len(ss) : IsDigit(CharAt(ss, j))
                              /\ Len(ss) = 2
                              /\ Len(mm) >= 2
                              /\ Len(mm) > 2 => CharAt(mm, 1) # "0"
                              /\ NumVal(ss) <= 59
                              /\ NumVal(mm) = es[i].start \div 6000
                              /\ 60 * NumVal(mm) + NumVal(ss) = es[i].start \div 100
                  ELSE /\ CharAt(s, 1) # "["
                       /\ s = Trimmed(es[i])

\* the entry that starts at 125.4 s is emitted as [02:05], one that starts at 7265.99 s
\* as [121:05]
C15_Witness ==
    /\ fn_result # None
    /\ fn_args.include_timestamps
    /\ Len(fn_args.entries) = 2
    /\ fn_args.entries[1].start = 12540
    /\ fn_args.entries[2].start = 726599
    /\ Chars(fn_result.value) = "[02:05] bbbb\n[121:05] h"

\* the result of the request's call of a backend, "none" when it was not called
ResultOf(p, o) ==
    IF \E i \in 1..Len(calls[p]) : calls[p][i].op = o
    THEN calls[p][CHOOSE i \in 1..Len(calls[p]) : calls[p][i].op = o].result
    ELSE "none"

\* the video of the request offers transcripts, but none, manual or auto-generated, in a
\* requested language
OnlyOtherLanguages(p) ==
    /\ world[p].service.list_ok
    /\ world[p].service.transcript_list # << >>
    /\ \A i \in 1..Len(world[p].service.transcript_list) :
         world[p].service.transcript_list[i].language_code \notin Range(languages[p])

\* C16, the structured-service backend: when the video offers transcripts only in languages
\* that were not requested, the backend returns the first one offered (if it can be
\* fetched), tagged with that transcript's language and kind; it fails with "no transcript
\* available" only when the video offers none.
C16_ApiFallback ==
    \A p \in Processes :
        LET tl == world[p].service.transcript_list
        IN  /\ (ResultOf(p, "caption-api") # "none" /\ OnlyOtherLanguages(p) /\ tl[1].fetch_ok)
               => /\ ResultOf(p, "caption-api") = "ok"
                  /\ transcript_info[p]
                       = [entries |-> tl[1].entries, language |-> tl[1].language_code,
                          source |-> IF tl[1].is_generated THEN "auto-generated" ELSE "manual"]
            /\ (\E i \in 1..Len(errors[p]) :
                   errors[p][i] = Diagnostic("youtube-transcript-api", "No transcript available"))
               => (world[p].service.list_ok /\ tl = << >>)

\* C16 as claimed: what holds of the structured-service backend holds of the command-line
\* backend too: when the video offers transcripts only in languages that were not
\* requested, the command-line backend does not fail for want of subtitles.
C16_FallbackInEveryBackend ==
    /\ C16_ApiFallback
    /\ \A p \in Processes :
         OnlyOtherLanguages(p)
         => \A i \in 1..Len(errors[p]) :
              errors[p][i] # Diagnostic("yt-dlp", "yt-dlp could not find subtitles")

\* C17 as claimed: in one call of the command-line backend the manual subtitle request
\* comes before the auto-generated one; the auto-generated request is issued only when the
\* manual request of the call left no subtitle file; and the result is tagged manual
\* exactly when the parsed file was written by the manual request of the call, and
\* auto-generated exactly when it was written by its auto-generated request.
C17_ManualThenAuto ==
    \A p \in Processes :
        /\ \A i, j \in 1..Len(runs[p]) :
             (runs[p][i].flag = "--write-sub" /\ runs[p][j].flag = "--write-auto-sub") => i < j
        /\ (pc[p] = "ytdlp_run" /\ SubFlags[loc[p].sub_flag] = "--write-auto-sub")
           => ~\E f \in tmp : f.by = rid[p] /\ f.flag = "--write-sub"
        /\ ResultOf(p, "caption-ytdlp") = "ok"
           => /\ transcript_info[p].source = "manual"
                 <=> (loc[p].sub_data.by = rid[p] /\ loc[p].sub_data.flag = "--write-sub")
              /\ transcript_info[p].source = "auto-generated"
                 <=> (loc[p].sub_data.by = rid[p] /\ loc[p].sub_data.flag = "--write-auto-sub")

\* the lines of a string of characters
RECURSIVE SplitLines(_)
SplitLines(s) ==
    IF \E j \in 1..Len(s) : CharAt(s, j) = "\n"
    THEN << SubSeq(s, 1, FirstIndexOf(s, "\n") - 1) >>
         \o SplitLines(SubSeq(s, FirstIndexOf(s, "\n") + 1, Len(s)))
    ELSE << s >>

\* the header of a document, from its opening line to the line before the closing one
HeaderLines(out) ==
    SplitLines(Chars(SubSeq(out, 1, MinOf(Positions(out, Lit("\n---"))) - 1)))

\* the name of a header field: what stands before its first colon
FieldName(line) ==
    IF \E j \in 1..Len(line) : CharAt(line, j) = ":"
    THEN SubSeq(line, 1, FirstIndexOf(line, ":") - 1)
    ELSE line

\* the line is duration: <m>m<s>s with 60*m + s = n and s < 60
IsDurationOf(line, n) ==
    /\ LitAt(line, 1, "duration: ")
    /\ CharAt(line, Len(line)) = "s"
    /\ \E j \in 1..Len(line) : CharAt(line, j) = "m"
    /\ LET at == FirstIndexOf(line, "m")
           mins == SubSeq(line, 11, at - 1)
           secs == SubSeq(line, at + 1, Len(line) - 1)
       IN  /\ Len(mins) >= 1 /\ \A j \in 1..Len(mins) : IsDigit(CharAt(mins, j))
           /\ Len(secs) >= 1 /\ \A j \in 1..Len(secs) : IsDigit(CharAt(secs, j))
           /\ NumVal(secs) < 60
           /\ 60 * NumVal(mins) + NumVal(secs) = n

\* the header and the Description section of the document built from fn_args, where
\* known says which durations count as known
HeaderAsSpecified(known) ==
    fn_result # None =>
        LET md == fn_args.metadata
            out == fn_result.value
            hl == HeaderLines(out)
            names == [k \in 1..(Len(hl) - 1) |-> FieldName(hl[k + 1])]
            desc == Positions(out, Lit("\n## Description\n\n"))
        IN  /\ Positions(out, Lit("\n---")) # {}
            /\ hl[1] = "---"
            /\ names = << "title", "author", "url", "video_id", "transcript_language",
                          "transcript_source" >>
                       \o (IF md.upload_date # << >> THEN << "upload_date" >> ELSE << >>)
                       \o (IF md.duration_seconds \in known THEN << "duration" >> ELSE << >>)
            /\ md.duration_seconds \in known => IsDurationOf(hl[Len(hl)], md.duration_seconds)
            /\ desc # {} <=> md.description # << >>
            /\ desc # {} =>
                 /\ Cardinality(desc) = 1
                 /\ \A i \in desc :
                      /\ i > MinOf(Positions(out, Lit("\n---")))
                      /\ \A j \in Positions(out, Lit("\n## Transcript\n\n")) : i < j

\* C18 as claimed: the header of every document lists title, author, url, video_id,
\* transcript_language, transcript_source in this order, then upload_date exactly when an
\* upload date is known, then duration exactly when the duration is known, rendered as
\* <m>m<s>s with 60*m + s the duration and 0 <= s < 60; the Description section stands
\* between the header and the Transcript section exactly when the description is not empty.
C18_HeaderFields == HeaderAsSpecified(Nat)

\* the same with a duration of zero seconds counted as unknown
C18_HeaderFieldsButZero == HeaderAsSpecified(Nat \ {0})

IsMetadata(c) == c.op \in {"metadata-ytdlp", "metadata-api"}

\* C19: the metadata is asked for only after the transcript acquisition has succeeded: the
\* handler reaches the metadata step only with a transcript, every call of a metadata
\* backend comes after a caption backend call that succeeded, and a request whose caption
\* backends all failed ends without any call of a metadata backend.
C19_MetadataAfterTranscript ==
    \A p \in Processes :
        /\ pc[p] = "finish"
           => /\ transcript_info[p] # None
              /\ \E j \in 1..Len(calls[p]) : IsCaption(calls[p][j]) /\ calls[p][j].result = "ok"
        /\ \A i \in 1..Len(calls[p]) :
             IsMetadata(calls[p][i])
             => /\ transcript_info[p] # None
                /\ \E j \in 1..(i - 1) : IsCaption(calls[p][j]) /\ calls[p][j].result = "ok"
                /\ \A j \in 1..Len(calls[p]) : IsCaption(calls[p][j]) => j < i
        /\ (/\ pc[p] = "done"
            /\ \A j \in 1..Len(calls[p]) : IsCaption(calls[p][j]) => calls[p][j].result = "fail")
           => \A i \in 1..Len(calls[p]) : ~IsMetadata(calls[p][i])

\* one request ended with the error text after both caption backends failed, without a
\* metadata call; the next one asked for the metadata after the command-line backend
\* succeeded
C19_Witness ==
    \E p \in Processes :
        /\ pc[p] = "done"
        /\ rid[p] = 2
        /\ Len(calls[p]) = 3
        /\ calls[p][2] = [op |-> "caption-ytdlp", result |-> "ok"]
        /\ IsMetadata(calls[p][3])
        /\ \E f \in tmp : f.by = 1

\* the header has the six fixed fields only, and no Description section follows it
BareHeader(text) ==
    /\ HeaderUnknown(text)
    /\ Positions(text, Lit("upload_date: ")) = {}
    /\ Positions(text, Lit("duration: ")) = {}
    /\ Positions(text, Lit("\n## Description\n\n")) = {}
    /\ Len(HeaderLines(text)) = 7

\* the documents the request would get with include_metadata = true
WithMetadata(p) ==
    { BuildMarkdownOutput(m, TextOf(p), transcript_info[p], video_id[p]) :
        m \in SuccessMetadatas(video_id[p]) \cup { DefaultMetadata(video_id[p]) } }

\* C20 as claimed: a request with include_metadata = false invokes no metadata backend, and
\* its document has the full header with title and author "Unknown", no upload_date, no
\* duration and no Description section, and the same transcript section as the document
\* of the same request with include_metadata = true.
C20_WithoutMetadata ==
    \A p \in Processes :
        (pc[p] = "done" /\ transcript_info[p] # None /\ ~input[p].include_metadata)
        => /\ \A i \in 1..Len(calls[p]) : ~IsMetadata(calls[p][i])
           /\ response[p].kind = "returned"
           /\ BareHeader(response[p].text)
           /\ \A doc \in WithMetadata(p) :
                TranscriptSectionOf(response[p].text) = TranscriptSectionOf(doc)

\* C20 amended: the same, the transcript sections being equal whenever neither document
\* is longer than the ceiling before it is bounded.
C20_WithoutMetadataBounded ==
    \A p \in Processes :
        (pc[p] = "done" /\ transcript_info[p] # None /\ ~input[p].include_metadata)
        => /\ \A i \in 1..Len(calls[p]) : ~IsMetadata(calls[p][i])
           /\ response[p].kind = "returned"
           /\ BareHeader(response[p].text)
           /\ \A doc \in WithMetadata(p) :
                (StrLen(response[p].text) <= MAX_TRANSCRIPT_CHARS
                 /\ StrLen(doc) <= MAX_TRANSCRIPT_CHARS)
                => TranscriptSectionOf(response[p].text) = TranscriptSectionOf(doc)

\* a request without metadata returned a document below the ceiling, with timecodes
C20_Witness ==
    \E p \in Processes :
        /\ Returned(p)
        /\ transcript_info[p] # None
        /\ ~input[p].include_metadata
        /\ calls[p] = << [op |-> "caption-api", result |-> "ok"] >>
        /\ BareHeader(response[p].text)
        /\ StrLen(response[p].text) < MAX_TRANSCRIPT_CHARS
        /\ Len(TranscriptSectionOf(response[p].text)) > 2

====
